---------------------------- MODULE Spec2Model ----------------------------
(***************************************************************************)
(* PayCompute Pro (PayComputePro_AllChecks_Final.py): the quality-control  *)
(* checks, the wage-mapping loader, the deduction extractor, the date      *)
(* rotation, the CSV formatter and the main pipeline of the dashboard.     *)
(*                                                                         *)
(* Text is a sequence of one-character strings, so that strip, upper,      *)
(* split, join, str() and float() are computed and not assumed.  A number  *)
(* is an integer count of 1/AmountScale units: every such value is an      *)
(* exact binary float, so round(x, 2) and repr(x) are exact here.          *)
(***************************************************************************)
EXTENDS Integers, Sequences, FiniteSets, TLC

VARIABLES
    pc,             \* position of the run (or of the function under check)
    month, year,    \* the sidebar's selections
    mapping_file,   \* Wage-Type-Mapping.xlsx: missing, corrupt or its rows
    uploaded_file,  \* the upload: missing (none), corrupt or the sheet's rows
    generate,       \* st.session_state.generate
    wage_mapping,   \* what load_wage_mapping returned
    payroll_df,     \* what pd.read_excel(uploaded_file) returned
    check1, check2, check3, check4, check7, check8, check9,
                    \* what each check_N returned
    deductions,     \* the record list (extracted, then dated)
    error,          \* extract_deductions_row1's message
    csv_data,       \* generate_csv_with_two_header_rows's text (empty: none yet)
    st_errors,      \* the st.error messages surfaced, in order
    download,       \* the download button was produced
    audit_log,      \* download_audit.json's entries
    ret             \* the value returned by a function checked on its own; in
                    \* the pipeline, check 6's report

vars == <<pc, month, year, mapping_file, uploaded_file, generate, wage_mapping,
          payroll_df, check1, check2, check3, check4, check7, check8, check9,
          deductions, error, csv_data, st_errors, download, audit_log, ret>>

inputVars == <<month, year, mapping_file, uploaded_file>>
checkVars == <<check1, check2, check3, check4, check7, check8, check9>>
outVars   == <<csv_data, st_errors, download, audit_log>>

\* A value not yet assigned.
Unset == "unset"

\* A file: missing, corrupt (pd.read_excel raises), or the rows of its first
\* sheet as read with header=None.
MissingFile == [state |-> "missing", rows |-> <<>>]
CorruptFile == [state |-> "corrupt", rows |-> <<>>]
Sheet(rows) == [state |-> "ok", rows |-> rows]

(***************************************************************************)
(* Configuration (lines 14-20)                                             *)
(***************************************************************************)
CURRENCY == <<"A", "E", "D">>
MIN_MONTH == 1
MAX_MONTH == 12
MIN_YEAR == 2020
MAX_YEAR == 2050
AMOUNT_WARNING_THRESHOLD == 10000

(***************************************************************************)
(* Text                                                                    *)
(***************************************************************************)
Whitespace == {" ", "\t", "\n", "\r"}
LowerLetters == <<"a","b","c","d","e","f","g","h","i","j","k","l","m",
                  "n","o","p","q","r","s","t","u","v","w","x","y","z">>
UpperLetters == <<"A","B","C","D","E","F","G","H","I","J","K","L","M",
                  "N","O","P","Q","R","S","T","U","V","W","X","Y","Z">>
Digits == <<"0","1","2","3","4","5","6","7","8","9">>

IsDigit(c) == \E i \in 1..10 : Digits[i] = c
DigitVal(c) == (CHOOSE i \in 1..10 : Digits[i] = c) - 1

\* str.upper() and str.lower(), character by character
UpperChar(c) ==
    IF \E i \in 1..26 : LowerLetters[i] = c
    THEN UpperLetters[CHOOSE i \in 1..26 : LowerLetters[i] = c]
    ELSE c
LowerChar(c) ==
    IF \E i \in 1..26 : UpperLetters[i] = c
    THEN LowerLetters[CHOOSE i \in 1..26 : UpperLetters[i] = c]
    ELSE c
Upper(s) == [i \in 1..Len(s) |-> UpperChar(s[i])]
Lower(s) == [i \in 1..Len(s) |-> LowerChar(s[i])]

\* str.strip(): leading and trailing whitespace removed
Strip(s) ==
    LET kept == {i \in 1..Len(s) : s[i] \notin Whitespace}
    IN  IF kept = {} THEN <<>>
        ELSE SubSeq(s, CHOOSE i \in kept : \A j \in kept : i <= j,
                       CHOOSE i \in kept : \A j \in kept : j <= i)

\* str.split(sep) for a one-character separator: the texts between the
\* separators, always at least one part
Split(s, sep) ==
    LET seps == {i \in 1..Len(s) : s[i] = sep}
        n == Cardinality(seps)
        pos == [k \in 0..(n + 1) |->
                  IF k = 0 THEN 0
                  ELSE IF k = n + 1 THEN Len(s) + 1
                  ELSE CHOOSE i \in seps : Cardinality({j \in seps : j <= i}) = k]
    IN  [k \in 1..(n + 1) |-> SubSeq(s, pos[k - 1] + 1, pos[k] - 1)]

\* sep.join(parts)
RECURSIVE Join(_, _)
Join(parts, sep) ==
    IF parts = <<>> THEN <<>>
    ELSE IF Len(parts) = 1 THEN parts[1]
    ELSE parts[1] \o <<sep>> \o Join(Tail(parts), sep)

\* str(n) of a natural number, and of an int
RECURSIVE NatStr(_)
NatStr(n) ==
    IF n < 10 THEN <<Digits[n + 1]>>
    ELSE Append(NatStr(n \div 10), Digits[(n % 10) + 1])
IntStr(n) == IF n < 0 THEN <<"-">> \o NatStr(-n) ELSE NatStr(n)

\* f"{n:02d}" for n >= 0
Pad2(n) == IF n < 10 THEN <<"0">> \o NatStr(n) ELSE NatStr(n)

(***************************************************************************)
(* Numbers: a float is [k |-> "num", v |-> units of 1/AmountScale],        *)
(* [k |-> "nan"], or the ValueError that float() raised.                   *)
(***************************************************************************)
AmountScale == 2^8
Num(v) == [k |-> "num", v |-> v]
NanFloat == [k |-> "nan", v |-> 0]
ValueError == [k |-> "ValueError", v |-> 0]

\* the digits after the point of r/den (r < den), exact, shortest
RECURSIVE FracDigits(_, _)
FracDigits(r, den) ==
    IF r = 0 THEN <<>>
    ELSE <<Digits[((r * 10) \div den) + 1]>> \o FracDigits((r * 10) % den, den)

\* repr() of the float v/den: "500.0", "0.00390625", "-5.0"
FloatRepr(v, den) ==
    LET a == IF v < 0 THEN -v ELSE v
        frac == FracDigits(a % den, den)
    IN  (IF v < 0 THEN <<"-">> ELSE <<>>) \o NatStr(a \div den) \o <<".">>
        \o (IF frac = <<>> THEN <<"0">> ELSE frac)

\* the value of a digit string
RECURSIVE DigitsVal(_)
DigitsVal(s) ==
    IF s = <<>> THEN 0 ELSE DigitsVal(SubSeq(s, 1, Len(s) - 1)) * 10 + DigitVal(s[Len(s)])
AllDigits(s) == \A i \in 1..Len(s) : IsDigit(s[i])

RECURSIVE Pow10(_)
Pow10(n) == IF n = 0 THEN 1 ELSE 10 * Pow10(n - 1)

\* float(text): surrounding whitespace and a sign are accepted, then "nan" in
\* any case or digits with at most one point; [num, fd] is num / 10^fd.
\* (The cell pools below hold no text in exponent, underscore or infinity form.)
DecimalOf(neg, body, parts) ==
    IF Lower(body) = <<"n", "a", "n">>
    THEN [ok |-> TRUE, nan |-> TRUE, num |-> 0, fd |-> 0]
    ELSE IF /\ Len(parts) <= 2
            /\ \A k \in 1..Len(parts) : AllDigits(parts[k])
            /\ Len(body) > Len(parts) - 1
    THEN [ok |-> TRUE, nan |-> FALSE,
          num |-> (IF neg THEN -1 ELSE 1) * DigitsVal(IF Len(parts) > 1 THEN parts[1] \o parts[2] ELSE parts[1]),
          fd |-> IF Len(parts) > 1 THEN Len(parts[2]) ELSE 0]
    ELSE [ok |-> FALSE, nan |-> FALSE, num |-> 0, fd |-> 0]
ParseUnsigned(neg, body) == DecimalOf(neg, body, Split(body, "."))
ParseSigned(t) ==
    IF t # <<>> /\ Head(t) \in {"+", "-"}
    THEN ParseUnsigned(Head(t) = "-", Tail(t))
    ELSE ParseUnsigned(FALSE, t)
ParseDecimal(s) == ParseSigned(Strip(s))

\* float(text) in units of 1/AmountScale (exact for the texts of the pools)
FloatOfParsed(p) ==
    IF ~p.ok THEN ValueError
    ELSE IF p.nan THEN NanFloat
    ELSE Num((p.num * AmountScale) \div Pow10(p.fd))
FloatOfText(s) == FloatOfParsed(ParseDecimal(s))

\* round(x, 2) of the float v/AmountScale, in hundredths: correctly rounded,
\* an exact tie going to the even hundredth
Round2(v) ==
    LET a == IF v < 0 THEN -v ELSE v
        q == (a * 100) \div AmountScale
        r == (a * 100) % AmountScale
        h == IF 2 * r > AmountScale \/ (2 * r = AmountScale /\ q % 2 = 1) THEN q + 1 ELSE q
    IN  IF v < 0 THEN -h ELSE h

(***************************************************************************)
(* Cells of a sheet read with header=None: empty (NaN), text, int, float   *)
(***************************************************************************)
NaN == [t |-> "nan", s |-> <<>>, v |-> 0]
Text(s) == [t |-> "str", s |-> s, v |-> 0]
IntCell(n) == [t |-> "int", s |-> <<>>, v |-> n]
FloatCell(v) == [t |-> "float", s |-> <<>>, v |-> v]

\* pd.isna(cell) / pd.notna(cell)
IsNa(cell) == cell.t = "nan"

\* str(cell)
PyStr(cell) ==
    CASE cell.t = "nan" -> <<"n", "a", "n">>
      [] cell.t = "str" -> cell.s
      [] cell.t = "int" -> IntStr(cell.v)
      [] cell.t = "float" -> FloatRepr(cell.v, AmountScale)

\* float(cell)
PyFloat(cell) ==
    CASE cell.t = "nan" -> NanFloat
      [] cell.t = "str" -> FloatOfText(cell.s)
      [] cell.t = "int" -> Num(cell.v * AmountScale)
      [] cell.t = "float" -> Num(cell.v)

(***************************************************************************)
(* get_days_in_month (lines 327-333)                                       *)
(***************************************************************************)
get_days_in_month_leap4(m, y) ==
    IF m = 2 THEN (IF y % 4 = 0 THEN 29 ELSE 28)
    ELSE IF m \in {4, 6, 9, 11} THEN 30
    ELSE 31

get_days_in_month(m, y) ==
    IF m = 2
    THEN (IF (y % 4 = 0 /\ y % 100 # 0) \/ (y % 400 = 0) THEN 29 ELSE 28)
    ELSE IF m \in {4, 6, 9, 11} THEN 30
    ELSE 31

(***************************************************************************)
(* States shared by the specifications: everything a specification does    *)
(* not use stays as it is here.                                            *)
(***************************************************************************)
NoChecks ==
    /\ check1 = Unset /\ check2 = Unset /\ check3 = Unset /\ check4 = Unset
    /\ check7 = Unset /\ check8 = Unset /\ check9 = Unset
NoOutput ==
    /\ csv_data = <<>> /\ st_errors = <<>> /\ download = FALSE /\ audit_log = <<>>

(***************************************************************************)
(* SpecDays: get_days_in_month applied to a month and a year               *)
(***************************************************************************)
FirstYear == 1895
LastYear == 2105

InitDays ==
    /\ pc = "days"
    /\ month \in MIN_MONTH..MAX_MONTH
    /\ year \in FirstYear..LastYear
    /\ mapping_file = Unset /\ uploaded_file = Unset /\ generate = FALSE
    /\ wage_mapping = Unset /\ payroll_df = Unset
    /\ NoChecks /\ NoOutput
    /\ deductions = Unset /\ error = Unset
    /\ ret = Unset

GetDays ==
    /\ pc = "days"
    /\ ret' = get_days_in_month(month, year)
    /\ pc' = "done"
    /\ UNCHANGED <<inputVars, generate, wage_mapping, payroll_df, checkVars,
                   deductions, error, outVars>>

SpecDays == InitDays /\ [][GetDays]_vars

\* The day number of a date of the proleptic Gregorian calendar (the Julian
\* day number, Fliegel and Van Flandern's formula)
DayNumber(y, m, d) ==
    LET a == (14 - m) \div 12
        yy == y + 4800 - a
        mm == m + 12 * a - 3
    IN  d + ((153 * mm + 2) \div 5) + 365 * yy + (yy \div 4) - (yy \div 100)
          + (yy \div 400) - 32045

GregorianDays(m, y) ==
    IF m = 12 THEN DayNumber(y + 1, 1, 1) - DayNumber(y, 12, 1)
    ELSE DayNumber(y, m + 1, 1) - DayNumber(y, m, 1)

\* C4: get_days_in_month(m, y) is the Gregorian length of month m of year y:
\* the distance in days between the first of the month and the first of the
\* next one; February has 29 days exactly in the years divisible by 4 and not
\* by 100, or divisible by 400; 1900 -> 28, 2000 -> 29, 2024 -> 29, 2023 -> 28.
C4_DaysInMonthGregorian ==
    pc = "done" =>
        /\ ret = GregorianDays(month, year)
        /\ (month = 2 /\ year = 1900 => ret = 28)
        /\ (month = 2 /\ year = 2000 => ret = 29)
        /\ (month = 2 /\ year = 2024 => ret = 29)
        /\ (month = 2 /\ year = 2023 => ret = 28)
        /\ (month \in {4, 6, 9, 11} => ret = 30)
        /\ (month \notin {2, 4, 6, 9, 11} => ret = 31)

\* C4 witness: February of a century year that is no leap year was computed
C4_Witness == pc = "done" /\ month = 2 /\ year = 1900 /\ ret = 28

(***************************************************************************)
(* Deduction records: the dicts extract_deductions_row1 appends (lines     *)
(* 386-392); pay_date is absent (Unset) until rotate_dates_descending.     *)
(***************************************************************************)
Deduction(emp_id, emp_name, code, component, amount) ==
    [emp_id |-> emp_id, emp_name |-> emp_name, code |-> code,
     component |-> component, amount |-> amount, pay_date |-> Unset]

(***************************************************************************)
(* rotate_dates_descending (lines 403-417)                                 *)
(***************************************************************************)
\* date_tracker = defaultdict(int)
TrackerGet(tracker, key) == IF key \in DOMAIN tracker THEN tracker[key] ELSE 0
TrackerInc(tracker, key) ==
    [k \in DOMAIN tracker \cup {key} |->
        IF k = key THEN TrackerGet(tracker, key) + 1 ELSE tracker[k]]

\* f"{day:02d}/{month:02d}/{year}"
FormatPayDate(day, m, y) == Pad2(day) \o <<"/">> \o Pad2(m) \o <<"/">> \o IntStr(y)

\* the key of the tracker: (deduction['emp_id'], deduction['component'])
RotateKeyEmpOnly(deduction) == <<deduction.emp_id>>
RotateKey(deduction) == <<deduction.emp_id, deduction.component>>

\* the loop over the list, from record i on
RECURSIVE RotateLoop(_, _, _, _, _, _)
RotateLoop(deds, i, tracker, days_in_month, m, y) ==
    IF i > Len(deds) THEN deds
    ELSE LET key == RotateKey(deds[i])
             d0 == days_in_month - TrackerGet(tracker, key)
             day == IF d0 < 1 THEN 1 ELSE d0
         IN  RotateLoop([deds EXCEPT ![i].pay_date = FormatPayDate(day, m, y)],
                        i + 1, TrackerInc(tracker, key), days_in_month, m, y)

rotate_dates_descending(deds, m, y) ==
    RotateLoop(deds, 1, <<>>, get_days_in_month(m, y), m, y)

(***************************************************************************)
(* Texts used by the inputs                                                *)
(***************************************************************************)
T_E12345 == <<"E","1","2","3","4","5">>
T_E12346 == <<"E","1","2","3","4","6">>
T_Jane == <<"J","a","n","e">>
T_A1 == <<"A","1">>
T_A2 == <<"A","2">>
T_Housing == <<"H","o","u","s","i","n","g">>
T_Transport == <<"T","r","a","n","s","p","o","r","t">>

\* the sequences over S of length at most n
SeqsUpTo(S, n) == UNION {[1..k -> S] : k \in 0..n}
\* n copies of x
Repeat(x, n) == [i \in 1..n |-> x]

(***************************************************************************)
(* SpecRotate: rotate_dates_descending applied to a record list            *)
(***************************************************************************)
MaxRotPrefix == 1
MaxRotSuffix == 1
MaxRun == 32
RotMonths == {1, 2, 4}
RotYears == {2023, 2024}

RotRecords ==
    { Deduction(T_E12345, T_Jane, T_A1, T_Housing, 500 * AmountScale),
      Deduction(T_E12345, T_Jane, T_A2, T_Transport, 20 * AmountScale),
      Deduction(T_E12346, T_Jane, T_A1, T_Housing, 500 * AmountScale) }

RotInputs ==
    { pre \o Repeat(r, n) \o suf :
        pre \in SeqsUpTo(RotRecords, MaxRotPrefix), r \in RotRecords,
        n \in 0..MaxRun, suf \in SeqsUpTo(RotRecords, MaxRotSuffix) }

InitRotate ==
    /\ pc = "rotate"
    /\ month \in RotMonths
    /\ year \in RotYears
    /\ deductions \in RotInputs
    /\ mapping_file = Unset /\ uploaded_file = Unset /\ generate = FALSE
    /\ wage_mapping = Unset /\ payroll_df = Unset
    /\ NoChecks /\ NoOutput
    /\ error = Unset
    /\ ret = Unset

Rotate ==
    /\ pc = "rotate"
    /\ deductions' = rotate_dates_descending(deductions, month, year)
    /\ pc' = "done"
    /\ UNCHANGED <<inputVars, generate, wage_mapping, payroll_df, checkVars,
                   error, outVars, ret>>

SpecRotate == InitRotate /\ [][Rotate]_vars

\* the number of records before position i that share record i's key
EarlierSameKey(deds, i) ==
    Cardinality({j \in 1..(i - 1) :
        deds[j].emp_id = deds[i].emp_id /\ deds[j].component = deds[i].component})

ExpectedDay(deds, i, D) ==
    IF D - EarlierSameKey(deds, i) >= 1 THEN D - EarlierSameKey(deds, i) ELSE 1

\* C1: after rotate_dates_descending, the records of one (emp_id, component)
\* key carry, in list order, the days D, D-1, ..., never below 1, with
\* D = get_days_in_month(month, year): record i gets day max(1, D - c) where c
\* counts the earlier records of its own key only; the occurrences past the
\* D-th get day 1; nothing else of a record changes.
C1_RotationDescending ==
    pc = "done" =>
        \A i \in 1..Len(deductions) :
            LET D == get_days_in_month(month, year)
            IN  /\ deductions[i].pay_date =
                       FormatPayDate(ExpectedDay(deductions, i, D), month, year)
                /\ (EarlierSameKey(deductions, i) >= D =>
                       SubSeq(deductions[i].pay_date, 1, 2) = <<"0", "1">>)
                /\ (EarlierSameKey(deductions, i) = 0 =>
                       SubSeq(deductions[i].pay_date, 1, 2) = NatStr(D))

\* C1 witness: one key occurs more often than the month has days, between
\* records of another key, so that the floor at day 1 is reached
C1_Witness ==
    /\ pc = "done"
    /\ \E i, j, k \in 1..Len(deductions) :
          /\ i < j /\ j < k
          /\ RotateKey(deductions[i]) = RotateKey(deductions[k])
          /\ RotateKey(deductions[j]) # RotateKey(deductions[i])
          /\ EarlierSameKey(deductions, k) = 1
          /\ EarlierSameKey(deductions, j) > get_days_in_month(month, year)
          /\ SubSeq(deductions[j].pay_date, 1, 2) = <<"0", "1">>

(***************************************************************************)
(* load_wage_mapping (lines 335-348).  The source is "corrupt" (read_excel *)
(* raises) or the rows of its first sheet, two cells each.                 *)
(***************************************************************************)
T_RAMCO_CODE == <<"R","A","M","C","O"," ","C","O","D","E">>
T_NOT_AVAILABLE == <<"N","O","T"," ","A","V","A","I","L","A","B","L","E">>
T_SAP_PAYCOMPONENT == <<"S","A","P"," ","P","A","Y","C","O","M","P","O","N","E","N","T">>

\* line 343: the row is kept
KeepRow(code, component) ==
    /\ code \notin {T_RAMCO_CODE, T_NOT_AVAILABLE}
    /\ component \notin {T_SAP_PAYCOMPONENT, T_NOT_AVAILABLE}

\* mapping[code] = component
DictSet(mapping, key, val) ==
    [k \in DOMAIN mapping \cup {key} |-> IF k = key THEN val ELSE mapping[k]]

\* for idx, row in df.iterrows(), from row i on
RECURSIVE LoadLoop(_, _, _)
LoadLoop(rows, i, mapping) ==
    IF i > Len(rows) THEN mapping
    ELSE LET row == rows[i]
             code == Upper(Strip(PyStr(row[1])))
             component == Strip(PyStr(row[2]))
         IN  IF ~IsNa(row[1]) /\ ~IsNa(row[2]) /\ KeepRow(code, component)
             THEN LoadLoop(rows, i + 1, DictSet(mapping, code, component))
             ELSE LoadLoop(rows, i + 1, mapping)

\* what load_wage_mapping returns: the dict, or None (after st.error) when
\* pd.read_excel raised
NoneMapping == [none |-> TRUE, map |-> <<>>]
Mapping(m) == [none |-> FALSE, map |-> m]

load_wage_mapping(file) ==
    IF file.state # "ok" THEN NoneMapping ELSE Mapping(LoadLoop(file.rows, 1, <<>>))

(***************************************************************************)
(* SpecMapping: load_wage_mapping applied to a two-column source           *)
(***************************************************************************)
MaxMapRows == 2

CodeCells ==
    { NaN, Text(<<"A","1">>), Text(<<" ","a","1"," ">>), Text(<<" ","r","a","m","c","o"," ","c","o","d","e">>),
      Text(T_NOT_AVAILABLE), Text(T_SAP_PAYCOMPONENT), Text(<<" "," ">>) }
ComponentCells ==
    { NaN, Text(T_Housing), Text(T_Transport), Text(<<" ","S","A","P"," ","P","A","Y","C","O","M","P","O","N","E","N","T"," ">>),
      Text(T_NOT_AVAILABLE), Text(T_RAMCO_CODE), Text(<<" "," "," ">>) }
MapRows == { <<c, n>> : c \in CodeCells, n \in ComponentCells }

InitMapping ==
    /\ pc = "load"
    /\ mapping_file \in {CorruptFile} \cup {Sheet(rows) : rows \in SeqsUpTo(MapRows, MaxMapRows)}
    /\ month = Unset /\ year = Unset
    /\ uploaded_file = Unset /\ generate = FALSE
    /\ wage_mapping = Unset /\ payroll_df = Unset
    /\ NoChecks /\ NoOutput
    /\ deductions = Unset /\ error = Unset
    /\ ret = Unset

Load ==
    /\ pc = "load"
    /\ wage_mapping' = load_wage_mapping(mapping_file)
    /\ pc' = "done"
    /\ UNCHANGED <<inputVars, generate, payroll_df, checkVars, deductions,
                   error, outVars, ret>>

SpecMapping == InitMapping /\ [][Load]_vars

\* a cell is blank: empty, or nothing but whitespace (as check 7 and the
\* identifier checks take it)
IsBlank(cell) == IsNa(cell) \/ Strip(PyStr(cell)) = <<>>
Placeholders == {T_RAMCO_CODE, T_NOT_AVAILABLE, T_SAP_PAYCOMPONENT}

\* the row, as an entry, is in the mapping
IsEntry(mapping, row) ==
    /\ Upper(Strip(PyStr(row[1]))) \in DOMAIN mapping
    /\ mapping[Upper(Strip(PyStr(row[1])))] = Strip(PyStr(row[2]))

\* C5: no row of the source in which a column, trimmed (the code upper-cased),
\* is one of the three placeholder literals, or in which a column is blank,
\* is an entry of the mapping load_wage_mapping returns.
C5_PlaceholderRowsDropped ==
    (pc = "done" /\ ~wage_mapping.none) =>
        \A i \in 1..Len(mapping_file.rows) :
            LET row == mapping_file.rows[i]
            IN  (\/ Upper(Strip(PyStr(row[1]))) \in Placeholders
                 \/ Strip(PyStr(row[2])) \in Placeholders
                 \/ IsBlank(row[1]) \/ IsBlank(row[2]))
                => ~IsEntry(wage_mapping.map, row)

(***************************************************************************)
(* The sheet (payroll_df): a sequence of rows of equally many cells.  Row  *)
(* and column i of the code are row and column i + 1 here.                 *)
(***************************************************************************)
NRows(df) == Len(df)
NCols(df) == IF df = <<>> THEN 0 ELSE Len(df[1])
Idx(n) == [i \in 1..n |-> i]

RECURSIVE ConcatAll(_)
ConcatAll(ss) == IF ss = <<>> THEN <<>> ELSE Head(ss) \o ConcatAll(Tail(ss))

\* s[:n]
Take(s, n) == SubSeq(s, 1, IF Len(s) < n THEN Len(s) ELSE n)

\* What a check returns, or the exception it raised (IndexError, TypeError)
Raised == [raised |-> TRUE, errors |-> <<>>, warnings |-> <<>>, valid_ids |-> 0,
           blank_ids |-> 0, mapped |-> 0, unmapped |-> 0]
Returned(errors, warnings) ==
    [raised |-> FALSE, errors |-> errors, warnings |-> warnings, valid_ids |-> 0,
     blank_ids |-> 0, mapped |-> 0, unmapped |-> 0]

\* A message of a check: its kind, the row it names, the number it carries
Msg(kind, row, n) == [kind |-> kind, row |-> row, n |-> n]

\* header_val = str(headers.iloc[col_idx]).strip().upper()
HeaderVal(df, col) == Upper(Strip(PyStr(df[1][col])))
\* emp_id = str(payroll_df.iloc[idx, 0]).strip()
EmpId(df, row) == Strip(PyStr(df[row][1]))
\* not emp_id or emp_id.lower() == 'nan' or emp_id == ''
IsBlankId(emp_id) == emp_id = <<>> \/ Lower(emp_id) = <<"n","a","n">>

(***************************************************************************)
(* check_1_file_structure_validation (lines 72-91)                         *)
(***************************************************************************)
check_1_file_structure_validation(df) ==
    IF NRows(df) = 0 \/ NCols(df) = 0
    THEN Raised   \* payroll_df.iloc[0] / .iloc[1:, 0]: IndexError
    ELSE LET row1_values == SelectSeq(df[1], LAMBDA c : ~IsNa(c))
             col_a == SelectSeq([i \in 1..(NRows(df) - 1) |-> df[i + 1][1]],
                                LAMBDA c : ~IsNa(c))
         IN  Returned(
                 (IF NRows(df) < 3 THEN <<Msg("File has less than 3 rows", 0, 0)>> ELSE <<>>)
                 \o (IF Len(row1_values) < 2 THEN <<Msg("Row 1 appears empty", 0, 0)>> ELSE <<>>)
                 \o (IF Len(col_a) = 0 THEN <<Msg("Column A appears empty", 0, 0)>> ELSE <<>>),
                 <<>>)

(***************************************************************************)
(* check_2_staff_id_validation (lines 93-124)                              *)
(***************************************************************************)
\* line 120: the individual messages are appended
ListInvalidIds(invalid_ids) == Len(invalid_ids) > 0 /\ Len(invalid_ids) <= 5

check_2_staff_id_validation(df) ==
    IF NRows(df) > 2 /\ NCols(df) = 0 THEN Raised
    ELSE
    LET rows == [i \in 1..(NRows(df) - 2) |-> i + 2]
        invalid_rows == SelectSeq(rows,
            LAMBDA r : IsBlankId(EmpId(df, r)) \/ Len(EmpId(df, r)) < 5)
        invalid_ids == [i \in 1..Len(invalid_rows) |->
            IF IsBlankId(EmpId(df, invalid_rows[i]))
            THEN Msg("Blank Staff ID", invalid_rows[i], 0)
            ELSE Msg("ID seems too short", invalid_rows[i], 0)]
        blank_ids == Len(SelectSeq(invalid_ids, LAMBDA x : x.kind = "Blank Staff ID"))
        valid_ids == Len(rows) - Len(invalid_rows)
        total == valid_ids + blank_ids
                 + Len(SelectSeq(invalid_ids, LAMBDA x : x.kind = "ID seems too short"))
        errors == IF total = 0 THEN <<Msg("No valid rows found after header", 0, 0)>> ELSE <<>>
        summary == IF total # 0 /\ blank_ids > 0
                   THEN <<Msg("Found rows with blank Staff IDs", 0, blank_ids)>> ELSE <<>>
        listed == IF ListInvalidIds(invalid_ids) THEN Take(invalid_ids, 5) ELSE <<>>
    IN  [Returned(errors, summary \o listed) EXCEPT
            !.valid_ids = valid_ids, !.blank_ids = blank_ids]

(***************************************************************************)
(* check_3_wage_code_validation (lines 126-155)                            *)
(***************************************************************************)
AllowedHeaders ==
    { <<"D","E","D","U","C","T","I","O","N","S">>, <<"S","T","A","F","F"," ","I","D">>, <<"R","O","W"," ","L","A","B","E","L","S">>, <<"S","T","O","R","E">>,
      <<"D","E","S","I","G","N","A","T","I","O","N">>, <<"G","R","A","N","D"," ","T","O","T","A","L">> }

\* the header is looked up: not NaN ('NAN') and not empty
IsLookedUp(header_val) == header_val # <<"N","A","N">> /\ header_val # <<>>

check_3_wage_code_validation(df, mapping) ==
    IF NRows(df) = 0 THEN Raised   \* payroll_df.iloc[0]: IndexError
    ELSE
    LET cols == Idx(NCols(df))
        looked == SelectSeq(cols, LAMBDA c : IsLookedUp(HeaderVal(df, c)))
    IN  IF mapping.none /\ looked # <<>> THEN Raised   \* "in None": TypeError
        ELSE
        LET mappedc == SelectSeq(looked, LAMBDA c : HeaderVal(df, c) \in DOMAIN mapping.map)
            unmapped_codes == SelectSeq(looked, LAMBDA c :
                /\ HeaderVal(df, c) \notin DOMAIN mapping.map
                /\ HeaderVal(df, c) \notin AllowedHeaders)
            n == Len(unmapped_codes)
            warnings ==
                IF n = 0 THEN <<>>
                ELSE IF n <= 5
                THEN [i \in 1..n |-> Msg("Code not in wage mapping", unmapped_codes[i], 0)]
                ELSE <<Msg("Found unmapped codes", 0, n)>>
                     \o [i \in 1..5 |-> Msg("Code not in wage mapping", unmapped_codes[i], 0)]
        IN  [Returned(<<>>, warnings) EXCEPT !.mapped = Len(mappedc), !.unmapped = n]

(***************************************************************************)
(* check_4_amount_range_validation (lines 157-195)                         *)
(***************************************************************************)
\* the columns whose header is a key of the mapping, in column order
MappedCols(df, mapping) ==
    SelectSeq(Idx(NCols(df)), LAMBDA c : HeaderVal(df, c) \in DOMAIN mapping.map)

\* the cells <<row, col>> of the given columns over the data rows, column by column
DataCells(df, cols) ==
    ConcatAll([k \in 1..Len(cols) |->
        [i \in 1..(NRows(df) - 2) |-> <<i + 2, cols[k]>>]])

\* the first 3 of the list, then one message counting the rest (lines 184-193)
FirstAndRollupAll(found, more) == found
FirstAndRollup(found, more) ==
    IF found = <<>> THEN <<>>
    ELSE Take(found, 3)
         \o (IF Len(found) > 3 THEN <<Msg(more, 0, Len(found) - 3)>> ELSE <<>>)

\* the cells' rows and amounts (lines 170-173)
AmountsOf(df, cells) ==
    [i \in 1..Len(cells) |->
        [row |-> cells[i][1], amount |-> PyFloat(df[cells[i][1]][cells[i][2]])]]
\* lines 174-182
AmountMessages(kind, found) ==
    [i \in 1..Len(found) |-> Msg(kind, found[i].row, found[i].amount.v)]
IsNegative(a) == a.amount.k = "num" /\ a.amount.v < 0
IsHigh(a) ==
    /\ a.amount.k = "num"
    /\ ~(a.amount.v < 0)
    /\ a.amount.v > AMOUNT_WARNING_THRESHOLD * AmountScale
RangeMessages(amounts) ==
    Returned(FirstAndRollup(AmountMessages("Negative amount", SelectSeq(amounts, IsNegative)),
                            "more negative amounts"),
             FirstAndRollup(AmountMessages("High amount", SelectSeq(amounts, IsHigh)),
                            "more high amounts"))

check_4_amount_range_validation(df, mapping) ==
    IF NRows(df) = 0 THEN Raised
    ELSE IF mapping.none /\ NCols(df) > 0 THEN Raised   \* "not in None": TypeError
    ELSE RangeMessages(AmountsOf(df, DataCells(df, MappedCols(df, mapping))))

(***************************************************************************)
(* check_7_missing_blank_cells (lines 219-242)                             *)
(***************************************************************************)
check_7_missing_blank_cells(df, mapping) ==
    IF NRows(df) = 0 THEN Raised
    ELSE IF mapping.none /\ NCols(df) > 0 THEN Raised
    ELSE
    LET cells == DataCells(df, MappedCols(df, mapping))
        blank == SelectSeq(cells, LAMBDA p :
                    IsNa(df[p[1]][p[2]]) \/ Strip(PyStr(df[p[1]][p[2]])) = <<>>)
        blank_cell_rows == [i \in 1..Len(blank) |-> Msg("Blank cell", blank[i][1], 0)]
    IN  Returned(<<>>, FirstAndRollup(blank_cell_rows, "more blank cells"))

(***************************************************************************)
(* SpecValidators: checks 1, 2, 3, 4 and 7 applied, one after the other,   *)
(* to a sheet and a loaded mapping                                         *)
(***************************************************************************)
MaxIdRows == 6
MaxAmtRows == 4
MaxHdrCols == 6
MaxSmallRows == 3

HeaderRow == <<Text(<<"S","t","a","f","f"," ","I","D">>), Text(<<"N","a","m","e">>), Text(<<"a","1"," ">>)>>
LabelRow == <<Text(<<"R","o","w"," ","L","a","b","e","l","s">>), NaN, Text(T_Housing)>>
TheMapping == Mapping((T_A1 :> T_Housing))

IdCells == { Text(<<" "," ">>), Text(<<"E","1">>), Text(T_E12345) }
AmountCells ==
    { NaN, Text(<<" ">>), Text(<<"a","b","c">>), FloatCell(-5 * AmountScale),
      FloatCell(500 * AmountScale), IntCell(10001) }
HeaderCells == { NaN, Text(<<"a","1"," ">>), Text(<<"Z","9">>) }
SmallCells == { NaN, Text(<<"x">>) }

\* sheets whose identifiers vary
IdSheets ==
    { <<HeaderRow, LabelRow>>
        \o [i \in 1..Len(ids) |-> <<ids[i], Text(T_Jane), FloatCell(500 * AmountScale)>>] :
        ids \in SeqsUpTo(IdCells, MaxIdRows) }
\* sheets whose amounts vary
AmountSheets ==
    { <<HeaderRow, LabelRow>>
        \o [i \in 1..Len(as) |-> <<Text(T_E12345), Text(T_Jane), as[i]>>] :
        as \in SeqsUpTo(AmountCells, MaxAmtRows) }
\* sheets whose header row varies
HeaderSheets ==
    { << <<Text(<<"S","t","a","f","f"," ","I","D">>), Text(<<"N","a","m","e">>)>> \o hs,
         <<Text(<<"R","o","w"," ","L","a","b","e","l","s">>), NaN>> \o [i \in 1..Len(hs) |-> NaN],
         <<Text(T_E12345), Text(T_Jane)>> \o [i \in 1..Len(hs) |-> IntCell(20)] >> :
        hs \in SeqsUpTo(HeaderCells, MaxHdrCols) }
\* small sheets: no row at all (an empty sheet), or up to MaxSmallRows rows
\* of one or two cells
SmallSheets ==
    UNION { [1..r -> [1..c -> SmallCells]] : r \in 0..MaxSmallRows, c \in 1..2 }

ValidatorSheets == IdSheets \cup AmountSheets \cup HeaderSheets \cup SmallSheets

InitValidators ==
    /\ pc = "check1"
    /\ payroll_df \in ValidatorSheets
    /\ wage_mapping = TheMapping
    /\ month = Unset /\ year = Unset /\ mapping_file = Unset
    /\ uploaded_file = Unset /\ generate = FALSE
    /\ NoChecks /\ NoOutput
    /\ deductions = Unset /\ error = Unset
    /\ ret = Unset

restVars == <<inputVars, generate, deductions, error, outVars, ret>>

Check1 ==
    /\ pc = "check1"
    /\ check1' = check_1_file_structure_validation(payroll_df)
    /\ pc' = "check2"
    /\ UNCHANGED <<payroll_df, wage_mapping, check2, check3, check4, check7,
                   check8, check9, restVars>>
Check2 ==
    /\ pc = "check2"
    /\ check2' = check_2_staff_id_validation(payroll_df)
    /\ pc' = "check3"
    /\ UNCHANGED <<payroll_df, wage_mapping, check1, check3, check4, check7,
                   check8, check9, restVars>>
Check3 ==
    /\ pc = "check3"
    /\ check3' = check_3_wage_code_validation(payroll_df, wage_mapping)
    /\ pc' = "check4"
    /\ UNCHANGED <<payroll_df, wage_mapping, check1, check2, check4, check7,
                   check8, check9, restVars>>
Check4 ==
    /\ pc = "check4"
    /\ check4' = check_4_amount_range_validation(payroll_df, wage_mapping)
    /\ pc' = "check7"
    /\ UNCHANGED <<payroll_df, wage_mapping, check1, check2, check3, check7,
                   check8, check9, restVars>>
Check7 ==
    /\ pc = "check7"
    /\ check7' = check_7_missing_blank_cells(payroll_df, wage_mapping)
    /\ pc' = "done"
    /\ UNCHANGED <<payroll_df, wage_mapping, check1, check2, check3, check4,
                   check8, check9, restVars>>

NextValidators == Check1 \/ Check2 \/ Check3 \/ Check4 \/ Check7
SpecValidators == InitValidators /\ [][NextValidators]_vars

\* What the claims about the validators count, taken from the sheet itself
DataRows(df) == 3..NRows(df)
MappedCells(df, mapping) ==
    { <<r, c>> \in DataRows(df) \X (1..NCols(df)) :
        Upper(Strip(PyStr(df[1][c]))) \in DOMAIN mapping.map }
NegativeCells(df, mapping) ==
    { p \in MappedCells(df, mapping) :
        PyFloat(df[p[1]][p[2]]).k = "num" /\ PyFloat(df[p[1]][p[2]]).v < 0 }
HighCells(df, mapping) ==
    { p \in MappedCells(df, mapping) :
        /\ PyFloat(df[p[1]][p[2]]).k = "num"
        /\ PyFloat(df[p[1]][p[2]]).v > AMOUNT_WARNING_THRESHOLD * AmountScale }
BlankCells(df, mapping) == { p \in MappedCells(df, mapping) : IsBlank(df[p[1]][p[2]]) }
UnmappedHeaders(df, mapping) ==
    { c \in 1..NCols(df) :
        LET h == Upper(Strip(PyStr(df[1][c])))
        IN  /\ ~IsBlank(df[1][c])
            /\ h \notin DOMAIN mapping.map
            /\ h \notin AllowedHeaders }
BlankIdRows(df) ==
    { r \in DataRows(df) : IsBlank(df[r][1]) }
ShortIdRows(df) ==
    { r \in DataRows(df) : ~IsBlank(df[r][1]) /\ Len(Strip(PyStr(df[r][1]))) < 5 }

CountKind(list, kind) == Cardinality({i \in 1..Len(list) : list[i].kind = kind})
Min(a, b) == IF a < b THEN a ELSE b

\* C10: check_1 returns for every sheet, also one of 0, 1 or 2 rows, with the
\* row-count error exactly when there are fewer than 3 rows, the row-0 error
\* exactly when row 0 has fewer than 2 non-empty cells and the column-0 error
\* exactly when column 0 is empty over the rows from 1 on, and nothing else.
C10_Check1ReturnsForEverySheet ==
    pc \in {"check2", "check3", "check4", "check7", "done"} =>
        /\ ~check1.raised
        /\ CountKind(check1.errors, "File has less than 3 rows")
              = (IF NRows(payroll_df) < 3 THEN 1 ELSE 0)
        /\ CountKind(check1.errors, "Row 1 appears empty")
              = (IF NRows(payroll_df) = 0
                    \/ Cardinality({c \in 1..NCols(payroll_df) : ~IsNa(payroll_df[1][c])}) < 2
                 THEN 1 ELSE 0)
        /\ CountKind(check1.errors, "Column A appears empty")
              = (IF \A r \in 2..NRows(payroll_df) : IsNa(payroll_df[r][1]) THEN 1 ELSE 0)
        /\ Len(check1.errors) <= 3
        /\ check1.warnings = <<>>

\* C9: with n >= 1 blank or too-short identifiers in the data rows, check_2's
\* warnings hold min(n, 5) individual messages, and one summary message with
\* the count of the blank ones exactly when an identifier is blank; an error
\* is returned only when there is no data row.
C9_Check2ListsFirstFive ==
    pc \in {"check3", "check4", "check7", "done"} =>
        LET blanks == Cardinality(BlankIdRows(payroll_df))
            n == blanks + Cardinality(ShortIdRows(payroll_df))
        IN  /\ ~check2.raised
            /\ (n >= 1 =>
                  /\ CountKind(check2.warnings, "Blank Staff ID")
                       + CountKind(check2.warnings, "ID seems too short") = Min(n, 5)
                  /\ CountKind(check2.warnings, "Found rows with blank Staff IDs")
                       = (IF blanks > 0 THEN 1 ELSE 0)
                  /\ \A i \in 1..Len(check2.warnings) :
                        check2.warnings[i].kind = "Found rows with blank Staff IDs"
                            => check2.warnings[i].n = blanks)
            /\ (check2.errors # <<>> => DataRows(payroll_df) = {})

CappedAt3(list, kind, more, found) ==
    /\ CountKind(list, kind) = Min(found, 3)
    /\ CountKind(list, more) = (IF found > 3 THEN 1 ELSE 0)
    /\ Len(list) = Min(found, 3) + (IF found > 3 THEN 1 ELSE 0)
    /\ \A i \in 1..Len(list) : list[i].kind = more => list[i].n = found - 3

Extracted(deds) == [none |-> FALSE, deductions |-> deds, error |-> ""]
ExtractFailed(message) == [none |-> TRUE, deductions |-> <<>>, error |-> message]

\* deduction_cols: the columns whose header is looked up and is a mapping key
DeductionCols(df, mapping) ==
    SelectSeq(Idx(NCols(df)), LAMBDA c :
        IsLookedUp(HeaderVal(df, c)) /\ HeaderVal(df, c) \in DOMAIN mapping.map)

\* line 385: pd.notna(amount) and amount > 0
EmitsRecordNonNegative(amount) == amount.k = "num" /\ amount.v >= 0
EmitsRecord(amount) == amount.k = "num" /\ amount.v > 0

\* the records of one data row (lines 372-394)
RowAmounts(df, r, cols) ==
    [k \in 1..Len(cols) |-> [col |-> cols[k], amount |-> PyFloat(df[r][cols[k]])]]
RowEmits(a) == EmitsRecord(a.amount)
RowRecords(df, emp_id, emp_name, emitted, mapping) ==
    [k \in 1..Len(emitted) |->
        Deduction(emp_id, emp_name, HeaderVal(df, emitted[k].col),
                  mapping.map[HeaderVal(df, emitted[k].col)], emitted[k].amount.v)]
ExtractRowAborting(df, r, cols, mapping) ==
    IF IsBlankId(EmpId(df, r)) THEN <<>>
    ELSE IF \E k \in 1..Len(cols) : PyFloat(df[r][cols[k]]).k = "ValueError" THEN <<>>
    ELSE RowRecords(df, EmpId(df, r),
                    IF NCols(df) > 1 THEN Strip(PyStr(df[r][2]))
                    ELSE <<"U","n","k","n","o","w","n">>,
                    SelectSeq(RowAmounts(df, r, cols), RowEmits), mapping)
ExtractRow(df, r, cols, mapping) ==
    IF IsBlankId(EmpId(df, r)) THEN <<>>
    ELSE RowRecords(df, EmpId(df, r),
                    IF NCols(df) > 1 THEN Strip(PyStr(df[r][2]))
                    ELSE <<"U","n","k","n","o","w","n">>,
                    SelectSeq(RowAmounts(df, r, cols), RowEmits), mapping)

extract_deductions_row1(df, mapping) ==
    IF NRows(df) = 0 THEN ExtractFailed("Error extracting deductions")   \* IndexError
    ELSE IF mapping.none
            /\ \E c \in 1..NCols(df) : IsLookedUp(HeaderVal(df, c))
    THEN ExtractFailed("Error extracting deductions")                    \* TypeError
    ELSE
    LET cols == IF mapping.none THEN <<>> ELSE DeductionCols(df, mapping)
    IN  IF cols = <<>> THEN ExtractFailed("No deduction codes found in Row 1.")
        ELSE Extracted(ConcatAll([i \in 1..(NRows(df) - 2) |->
                                    ExtractRow(df, i + 2, cols, mapping)]))

(***************************************************************************)
(* SpecExtract: extract_deductions_row1 applied to a sheet and a mapping   *)
(***************************************************************************)
MaxMoreRows == 1

TwoCodes == Mapping((T_A1 :> T_Housing) @@ (T_A2 :> T_Transport))
\* a mapping sheet's code cell "Nan" is read as text and gives the key "NAN"
NanCode == Mapping((T_A1 :> T_Housing) @@ (<<"N","A","N">> :> T_Transport))
ExtractMappings == {TwoCodes, NanCode}

ExtractHeaders ==
    { <<Text(<<"I","D">>), Text(<<"N","A","M","E">>), Text(<<"A","1">>), Text(<<"A","2">>)>>,
      <<Text(<<"S","t","a","f","f"," ","I","D">>), Text(<<"N","a","m","e">>), Text(<<"a","1"," ">>), Text(<<"Z","9">>)>>,
      <<Text(<<"S","t","a","f","f"," ","I","D">>), Text(<<"N","a","m","e">>), NaN, Text(<<"a","2">>)>>,
      <<Text(<<"S","t","a","f","f"," ","I","D">>), Text(<<"N","a","m","e">>), Text(<<"Z","9">>), NaN>>,
      <<Text(<<"I","D">>), Text(<<"N","A","M","E">>), Text(<<"A","1">>), Text(<<"N","a","n">>)>> }
ExtractLabels == <<Text(<<"R","o","w"," ","L","a","b","e","l","s">>), NaN, NaN, NaN>>
ExtractIds == { NaN, Text(<<" "," ">>), Text(T_E12345) }
ExtractAmounts ==
    { NaN, Text(<<"a","b","c">>), Text(<<" ","2","0"," ">>), FloatCell(-5 * AmountScale), IntCell(0),
      FloatCell(500 * AmountScale) }
\* a data row with every combination of identifier and amounts
FullRows ==
    { <<id, Text(T_Jane), a1, a2>> :
        id \in ExtractIds, a1 \in ExtractAmounts, a2 \in ExtractAmounts }
\* the rows that follow it
MoreRows ==
    { <<Text(T_E12345), Text(T_Jane), Text(<<"5","0","0">>), Text(<<"0">>)>>,
      <<Text(T_E12346), Text(<<"B","o","b">>), Text(<<"n","/","a">>), FloatCell(1)>>,
      <<NaN, NaN, FloatCell(500 * AmountScale), IntCell(20)>>,
      <<IntCell(12345), Text(<<"A","n","n">>), FloatCell(-5 * AmountScale), IntCell(10001)>> }

ExtractSheets ==
    { <<h, ExtractLabels>> : h \in ExtractHeaders }
    \cup { <<h, ExtractLabels, full>> \o more :
            h \in ExtractHeaders, full \in FullRows,
            more \in SeqsUpTo(MoreRows, MaxMoreRows) }

InitExtract ==
    /\ pc = "extract"
    /\ payroll_df \in ExtractSheets
    /\ wage_mapping \in ExtractMappings
    /\ month = Unset /\ year = Unset /\ mapping_file = Unset
    /\ uploaded_file = Unset /\ generate = FALSE
    /\ NoChecks /\ NoOutput
    /\ deductions = Unset /\ error = Unset
    /\ ret = Unset

Extract ==
    /\ pc = "extract"
    /\ \E res \in {extract_deductions_row1(payroll_df, wage_mapping)} :
           /\ deductions' = res.deductions
           /\ error' = res.error
           /\ ret' = res
    /\ pc' = "done"
    /\ UNCHANGED <<inputVars, generate, wage_mapping, payroll_df, checkVars, outVars>>

SpecExtract == InitExtract /\ [][Extract]_vars

\* the cells a record may come from: in a data row, under a header that is a
\* mapping key, holding a number above zero, the row's identifier and the
\* header's component being the record's
PositiveSources(df, mapping, rec) ==
    { p \in MappedCells(df, mapping) :
        LET cell == df[p[1]][p[2]]
        IN  /\ ~IsBlank(cell)
            /\ PyFloat(cell).k = "num"
            /\ PyFloat(cell).v > 0
            /\ PyFloat(cell).v = rec.amount
            /\ Strip(PyStr(df[p[1]][1])) = rec.emp_id
            /\ Upper(Strip(PyStr(df[1][p[2]]))) = rec.code
            /\ mapping.map[rec.code] = rec.component }

\* C3: every record extract_deductions_row1 returns has an amount above zero,
\* and the records are no more than the cells holding a positive number they
\* can come from: a zero, negative, empty or non-numeric cell yields none.
C3_ExtractOnlyPositive ==
    pc = "done" =>
        \A i \in 1..Len(deductions) :
            /\ deductions[i].amount > 0
            /\ Cardinality({j \in 1..Len(deductions) : deductions[j] = deductions[i]})
                  <= Cardinality(PositiveSources(payroll_df, wage_mapping, deductions[i]))

\* C3 witness: a row with a zero or non-numeric cell beside a positive one was
\* extracted, and a record was returned
C3_Witness ==
    /\ pc = "done"
    /\ deductions # <<>>
    /\ \E r \in DataRows(payroll_df) :
          /\ ~IsBlank(payroll_df[r][1])
          /\ payroll_df[1][3] = Text(<<"A","1">>) /\ payroll_df[1][4] = Text(<<"A","2">>)
          /\ payroll_df[r][3] \in {IntCell(0), Text(<<"a","b","c">>), NaN}
          /\ PyFloat(payroll_df[r][4]).k = "num" /\ PyFloat(payroll_df[r][4]).v > 0

(***************************************************************************)
(* generate_csv_with_two_header_rows (lines 419-439)                       *)
(***************************************************************************)
row1_headers ==
    << <<"c","u","r","r","e","n","c","y","-","c","o","d","e">>, <<"p","a","y","-","d","a","t","e">>, <<"p","a","y","-","c","o","m","p","o","n","e","n","t","-","c","o","d","e">>, <<"u","s","e","r","-","i","d">>,
       <<"v","a","l","u","e">>, <<"o","p","e","r","a","t","i","o","n">> >>
row2_headers ==
    << <<"C","u","r","r","e","n","c","y">>, <<"I","s","s","u","e"," ","D","a","t","e">>, <<"P","a","y"," ","C","o","m","p","o","n","e","n","t">>, <<"U","s","e","r"," ","I","D">>,
       <<"S","p","o","t"," ","B","o","n","u","s"," ","A","m","o","u","n","t">>, <<"O","p","e","r","a","t","i","o","n">> >>

\* str(round(float(ded['amount']), 2))
AmountText(amount) == FloatRepr(Round2(amount), 100)

\* one data line, with its line break
CsvLine(ded) ==
    Join(<<CURRENCY, ded.pay_date, ded.component, ded.emp_id,
           AmountText(ded.amount), <<>> >>, ",") \o <<"\n">>

generate_csv_with_two_header_rows(deds) ==
    Join(row1_headers, ",") \o <<"\n">>
    \o Join(row2_headers, ",") \o <<"\n">>
    \o ConcatAll([i \in 1..Len(deds) |->
                    IF deds[i].amount > 0 THEN CsvLine(deds[i]) ELSE <<>>])

(***************************************************************************)
(* check_9_pre_download_validation (lines 259-295)                         *)
(***************************************************************************)
expected_row1 ==
    <<"c","u","r","r","e","n","c","y","-","c","o","d","e",",","p","a","y","-","d","a","t","e",",","p","a","y","-","c","o","m","p","o","n","e","n","t","-","c","o","d","e",",","u","s","e","r","-","i","d",",","v","a","l","u","e",",","o","p","e","r","a","t","i","o","n">>
expected_row2 ==
    <<"C","u","r","r","e","n","c","y",",","I","s","s","u","e"," ","D","a","t","e",",","P","a","y"," ","C","o","m","p","o","n","e","n","t",",","U","s","e","r"," ","I","D",",","S","p","o","t"," ","B","o","n","u","s"," ","A","m","o","u","n","t",",","O","p","e","r","a","t","i","o","n">>

\* lines 279-286: the line counts as a record with 0 amount
IsZeroParsed(p) == p.ok /\ ~p.nan /\ p.num = 0
IsZeroField(parts) == Len(parts) > 4 /\ IsZeroParsed(ParseDecimal(parts[5]))
IsZeroLine(line) == Strip(line) # <<>> /\ IsZeroField(Split(line, ","))

check_9_pre_download_validation(csv_content) ==
    LET lines == Split(Strip(csv_content), "\n")
        zero_count == Cardinality({i \in 3..Len(lines) : IsZeroLine(lines[i])})
    IN  IF Len(lines) < 2 THEN Raised   \* lines[1]: IndexError
        ELSE Returned(
            (IF lines[1] # expected_row1
             THEN <<Msg("Row 1: System headers incorrect", 0, 0)>> ELSE <<>>)
            \o (IF lines[2] # expected_row2
                THEN <<Msg("Row 2: Display headers incorrect", 0, 0)>> ELSE <<>>)
            \o (IF zero_count > 0
                THEN <<Msg("Found records with 0 amount", 0, zero_count)>> ELSE <<>>)
            \o (IF Len(lines) < 3
                THEN <<Msg("CSV has less than 3 rows", 0, 0)>> ELSE <<>>),
            <<>>)

(***************************************************************************)
(* SpecCsv: records with amounts above zero are dated, formatted and the   *)
(* text validated                                                          *)
(***************************************************************************)
MaxCsvRecords == 2

CsvEmpIds == { T_E12345, <<"0">> }
CsvComponents == { T_Housing, <<"B","a","s","i","c",","," ","P","a","y">> }
\* 1/256, 1/8, 1/2, 20 and 500 currency units
CsvAmounts == { 1, 32, 128, 20 * AmountScale, 500 * AmountScale }
CsvRecords ==
    { Deduction(e, T_Jane, T_A1, c, a) :
        e \in CsvEmpIds, c \in CsvComponents, a \in CsvAmounts }

InitCsv ==
    /\ pc = "rotate"
    /\ month \in {MIN_MONTH, MAX_MONTH}
    /\ year \in {MIN_YEAR, MAX_YEAR}
    /\ deductions \in SeqsUpTo(CsvRecords, MaxCsvRecords) \ {<<>>}
    /\ mapping_file = Unset /\ uploaded_file = Unset /\ generate = FALSE
    /\ wage_mapping = Unset /\ payroll_df = Unset
    /\ NoChecks /\ NoOutput
    /\ error = Unset
    /\ ret = Unset

CsvRotate ==
    /\ pc = "rotate"
    /\ deductions' = rotate_dates_descending(deductions, month, year)
    /\ pc' = "csv"
    /\ UNCHANGED <<inputVars, generate, wage_mapping, payroll_df, checkVars,
                   error, outVars, ret>>
CsvGenerate ==
    /\ pc = "csv"
    /\ csv_data' = generate_csv_with_two_header_rows(deductions)
    /\ pc' = "check9"
    /\ UNCHANGED <<inputVars, generate, wage_mapping, payroll_df, checkVars,
                   deductions, error, st_errors, download, audit_log, ret>>
CsvValidate ==
    /\ pc = "check9"
    /\ check9' = check_9_pre_download_validation(csv_data)
    /\ pc' = "done"
    /\ UNCHANGED <<inputVars, generate, wage_mapping, payroll_df, check1, check2,
                   check3, check4, check7, check8, deductions, error, outVars, ret>>

NextCsv == CsvRotate \/ CsvGenerate \/ CsvValidate
SpecCsv == InitCsv /\ [][NextCsv]_vars

\* C2: for a non-empty record list with every amount above zero, dated for a
\* month in 1..12 and a year in 2020..2050, check 9 finds no error in the text
\* the formatter produced.
C2_CsvRoundTrip ==
    ( /\ pc = "done"
      /\ deductions # <<>>
      /\ \A i \in 1..Len(deductions) : deductions[i].amount > 0
      /\ month \in MIN_MONTH..MAX_MONTH /\ year \in MIN_YEAR..MAX_YEAR )
    => (~check9.raised /\ check9.errors = <<>>)

(***************************************************************************)
(* check_6_data_quality_report (lines 197-217): the total the audit uses   *)
(***************************************************************************)
RECURSIVE SumAmounts(_)
SumAmounts(deds) ==
    IF deds = <<>> THEN 0 ELSE Head(deds).amount + SumAmounts(Tail(deds))

check_6_data_quality_report(deds) ==
    [total_records |-> Len(deds),
     unique_employees |-> Cardinality({deds[i].emp_id : i \in 1..Len(deds)}),
     unique_components |-> Cardinality({deds[i].component : i \in 1..Len(deds)}),
     total_amount |-> SumAmounts(deds)]

(***************************************************************************)
(* check_8_component_consistency (lines 244-257)                           *)
(***************************************************************************)
RECURSIVE Check8Loop(_, _, _, _)
Check8Loop(deds, i, components, warnings) ==
    IF i > Len(deds) THEN warnings
    ELSE LET component == deds[i].component
             component_upper == Upper(component)
         IN  IF component_upper \notin DOMAIN components
             THEN Check8Loop(deds, i + 1, DictSet(components, component_upper, component),
                             warnings)
             ELSE IF components[component_upper] # component
             THEN Check8Loop(deds, i + 1, components,
                             Append(warnings, [kind |-> "Component case inconsistency",
                                               first |-> components[component_upper],
                                               other |-> component]))
             ELSE Check8Loop(deds, i + 1, components, warnings)

check_8_component_consistency(deds) == Check8Loop(deds, 1, <<>>, <<>>)

(***************************************************************************)
(* check_10_audit_log (lines 297-321): the entry, and the log after the    *)
(* read, the append and the write                                          *)
(***************************************************************************)
AuditEntry(sheet_name, record_count, total_amount) ==
    [sheet_name |-> sheet_name, record_count |-> record_count,
     total_amount |-> Round2(total_amount),
     filename |-> sheet_name \o <<".","c","s","v">>]

check_10_audit_log(log, sheet_name, record_count, total_amount) ==
    Append(log, AuditEntry(sheet_name, record_count, total_amount))

(***************************************************************************)
(* Spec: the main pipeline (lines 496-664), one run of the script after    *)
(* the Generate button is pressed                                          *)
(***************************************************************************)
MaxPipeRows == 2

PipelineMonths == {2, 9}
PipelineYears == {2025}
sheet_name == <<"1">>

MappingRows ==
    << <<Text(T_RAMCO_CODE), Text(T_SAP_PAYCOMPONENT)>>,
       <<Text(<<"A","1">>), Text(T_Housing)>>,
       <<Text(<<"a","2"," ">>), Text(T_Transport)>> >>

PipeHeaders ==
    { <<Text(<<"I","D">>), Text(<<"N","A","M","E">>), Text(<<"A","1">>), Text(<<"A","2">>)>>,
      <<Text(<<"S","t","a","f","f"," ","I","D">>), Text(<<"N","a","m","e">>), Text(<<"Z","9">>), NaN>> }
PipeRows ==
    { <<Text(T_E12345), Text(T_Jane), Text(<<"5","0","0">>), Text(<<"0">>)>>,
      <<Text(T_E12346), Text(<<"B","o","b">>), FloatCell(-5 * AmountScale), IntCell(20)>>,
      <<NaN, Text(T_Jane), FloatCell(500 * AmountScale), IntCell(20)>>,
      <<Text(<<"E","1">>), Text(<<"A","n","n">>), Text(<<"a","b","c">>), NaN>>,
      <<Text(T_E12345), Text(T_Jane), FloatCell(1), NaN>> }
PipelineSheets ==
    { <<h, ExtractLabels>> \o rows :
        h \in PipeHeaders, rows \in SeqsUpTo(PipeRows, MaxPipeRows) }
    \cup SmallSheets

Init ==
    /\ pc = "idle"
    /\ month \in PipelineMonths
    /\ year \in PipelineYears
    /\ mapping_file \in {MissingFile, CorruptFile, Sheet(MappingRows)}
    /\ uploaded_file \in {MissingFile, CorruptFile} \cup {Sheet(rows) : rows \in PipelineSheets}
    /\ generate = FALSE
    /\ wage_mapping = Unset /\ payroll_df = Unset
    /\ NoChecks /\ NoOutput
    /\ deductions = <<>> /\ error = ""
    /\ ret = Unset

\* lines 496-503: the button; without an upload nothing runs
PressGenerate ==
    /\ pc = "idle"
    /\ IF uploaded_file.state = "missing"
       THEN /\ st_errors' = Append(st_errors, "Upload file first")
            /\ pc' = "done"
            /\ UNCHANGED generate
       ELSE /\ generate' = TRUE
            /\ pc' = "start"
            /\ UNCHANGED st_errors
    /\ UNCHANGED <<inputVars, wage_mapping, payroll_df, checkVars, deductions, error,
                   csv_data, download, audit_log, ret>>

\* lines 505-513
MappingExists ==
    /\ pc = "start" /\ generate
    /\ IF mapping_file.state = "missing"
       THEN /\ st_errors' = Append(st_errors, "Wage-Type-Mapping.xlsx not found")
            /\ pc' = "finally"
       ELSE /\ pc' = "load"
            /\ UNCHANGED st_errors
    /\ UNCHANGED <<inputVars, generate, wage_mapping, payroll_df, checkVars, deductions,
                   error, csv_data, download, audit_log, ret>>

\* line 516; load_wage_mapping's own st.error (line 347) when it returns None
LoadMapping ==
    /\ pc = "load"
    /\ wage_mapping' = load_wage_mapping(mapping_file)
    /\ st_errors' = IF load_wage_mapping(mapping_file).none
                    THEN Append(st_errors, "Error loading wage mapping")
                    ELSE st_errors
    /\ pc' = "read"
    /\ UNCHANGED <<inputVars, generate, payroll_df, checkVars, deductions, error,
                   csv_data, download, audit_log, ret>>

\* line 517
ReadPayroll ==
    /\ pc = "read"
    /\ IF uploaded_file.state = "corrupt"
       THEN pc' = "except" /\ UNCHANGED payroll_df
       ELSE pc' = "check1" /\ payroll_df' = uploaded_file.rows
    /\ UNCHANGED <<inputVars, generate, wage_mapping, checkVars, deductions, error,
                   outVars, ret>>

\* lines 519-526
StructureCheck ==
    /\ pc = "check1"
    /\ \E res \in {check_1_file_structure_validation(payroll_df)} :
           IF res.raised THEN pc' = "except" /\ UNCHANGED check1
           ELSE pc' = "check2" /\ check1' = res
    /\ UNCHANGED <<inputVars, generate, wage_mapping, payroll_df, check2, check3, check4,
                   check7, check8, check9, deductions, error, outVars, ret>>

\* lines 528-538
StaffIdCheck ==
    /\ pc = "check2"
    /\ \E res \in {check_2_staff_id_validation(payroll_df)} :
           IF res.raised THEN pc' = "except" /\ UNCHANGED check2
           ELSE pc' = "check3" /\ check2' = res
    /\ UNCHANGED <<inputVars, generate, wage_mapping, payroll_df, check1, check3, check4,
                   check7, check8, check9, deductions, error, outVars, ret>>

\* lines 540-550
WageCodeCheck ==
    /\ pc = "check3"
    /\ \E res \in {check_3_wage_code_validation(payroll_df, wage_mapping)} :
           IF res.raised THEN pc' = "except" /\ UNCHANGED check3
           ELSE pc' = "check4" /\ check3' = res
    /\ UNCHANGED <<inputVars, generate, wage_mapping, payroll_df, check1, check2, check4,
                   check7, check8, check9, deductions, error, outVars, ret>>

\* lines 552-562
AmountRangeCheck ==
    /\ pc = "check4"
    /\ \E res \in {check_4_amount_range_validation(payroll_df, wage_mapping)} :
           IF res.raised THEN pc' = "except" /\ UNCHANGED check4
           ELSE pc' = "extract" /\ check4' = res
    /\ UNCHANGED <<inputVars, generate, wage_mapping, payroll_df, check1, check2, check3,
                   check7, check8, check9, deductions, error, outVars, ret>>

\* lines 567-575
ExtractDeductions ==
    /\ pc = "extract"
    /\ \E res \in {extract_deductions_row1(payroll_df, wage_mapping)} :
           /\ deductions' = res.deductions
           /\ error' = res.error
           /\ IF res.error # ""
              THEN st_errors' = Append(st_errors, res.error) /\ pc' = "finally"
              ELSE IF res.deductions = <<>>
              THEN st_errors' = Append(st_errors, "No deductions found") /\ pc' = "finally"
              ELSE pc' = "rotate" /\ UNCHANGED st_errors
    /\ UNCHANGED <<inputVars, generate, wage_mapping, payroll_df, checkVars, csv_data,
                   download, audit_log, ret>>

\* lines 577-594: the dates, then check 6's report
ApplyRotation ==
    /\ pc = "rotate"
    /\ deductions' = rotate_dates_descending(deductions, month, year)
    /\ ret' = check_6_data_quality_report(deductions')
    /\ pc' = "check7"
    /\ UNCHANGED <<inputVars, generate, wage_mapping, payroll_df, checkVars, error, outVars>>

\* lines 596-603
BlankCellCheck ==
    /\ pc = "check7"
    /\ \E res \in {check_7_missing_blank_cells(payroll_df, wage_mapping)} :
           IF res.raised THEN pc' = "except" /\ UNCHANGED check7
           ELSE pc' = "check8" /\ check7' = res
    /\ UNCHANGED <<inputVars, generate, wage_mapping, payroll_df, check1, check2, check3,
                   check4, check8, check9, deductions, error, outVars, ret>>

\* lines 605-612
ConsistencyCheck ==
    /\ pc = "check8"
    /\ check8' = check_8_component_consistency(deductions)
    /\ pc' = "csv"
    /\ UNCHANGED <<inputVars, generate, wage_mapping, payroll_df, check1, check2, check3,
                   check4, check7, check9, deductions, error, outVars, ret>>

\* line 618
GenerateCsv ==
    /\ pc = "csv"
    /\ csv_data' = generate_csv_with_two_header_rows(deductions)
    /\ pc' = "check9"
    /\ UNCHANGED <<inputVars, generate, wage_mapping, payroll_df, checkVars, deductions,
                   error, st_errors, download, audit_log, ret>>

\* lines 620-630
PreDownloadCheck ==
    /\ pc = "check9"
    /\ \E res \in {check_9_pre_download_validation(csv_data)} :
           IF res.raised THEN pc' = "except" /\ UNCHANGED check9
           ELSE pc' = "gate" /\ check9' = res
    /\ UNCHANGED <<inputVars, generate, wage_mapping, payroll_df, check1, check2, check3,
                   check4, check7, check8, deductions, error, outVars, ret>>

\* line 632: the errors that keep the run from "READY TO DOWNLOAD"
GateOpen == check9.errors = <<>> /\ check1.errors = <<>> /\ check2.errors = <<>>

\* lines 632-648: the success message and the download button
ReadyGate ==
    /\ pc = "gate"
    /\ IF GateOpen
       THEN download' = TRUE /\ pc' = "audit"
       ELSE pc' = "finally" /\ UNCHANGED download
    /\ UNCHANGED <<inputVars, generate, wage_mapping, payroll_df, checkVars, deductions,
                   error, csv_data, st_errors, audit_log, ret>>

\* lines 650-656
AuditLog ==
    /\ pc = "audit"
    /\ audit_log' = check_10_audit_log(audit_log, sheet_name, Len(deductions),
                                       ret.total_amount)
    /\ pc' = "finally"
    /\ UNCHANGED <<inputVars, generate, wage_mapping, payroll_df, checkVars, deductions,
                   error, csv_data, st_errors, download, ret>>

\* lines 658-661
OnException ==
    /\ pc = "except"
    /\ st_errors' = Append(st_errors, "Error")
    /\ pc' = "finally"
    /\ UNCHANGED <<inputVars, generate, wage_mapping, payroll_df, checkVars, deductions,
                   error, csv_data, download, audit_log, ret>>

\* lines 663-664
FinallyKeepsFlag ==
    /\ pc = "finally"
    /\ pc' = "done"
    /\ UNCHANGED <<inputVars, generate, wage_mapping, payroll_df, checkVars, deductions,
                   error, outVars, ret>>
Finally ==
    /\ pc = "finally"
    /\ generate' = FALSE
    /\ pc' = "done"
    /\ UNCHANGED <<inputVars, wage_mapping, payroll_df, checkVars, deductions, error,
                   outVars, ret>>

\* lines 502-505: the script runs again without a press of the button (any
\* other widget, the download button included); the page is drawn anew, and
\* the pipeline runs only if the session's generate flag is still set
Rerun ==
    /\ pc \in {"done", "rerun"}
    /\ st_errors' = <<>> /\ download' = FALSE /\ csv_data' = <<>>
    /\ pc' = IF uploaded_file.state # "missing" /\ generate THEN "start" ELSE "rerun"
    /\ UNCHANGED <<inputVars, generate, wage_mapping, payroll_df, checkVars, deductions,
                   error, audit_log, ret>>

Next ==
    \/ PressGenerate \/ MappingExists \/ LoadMapping \/ ReadPayroll
    \/ StructureCheck \/ StaffIdCheck \/ WageCodeCheck \/ AmountRangeCheck
    \/ ExtractDeductions \/ ApplyRotation \/ BlankCellCheck \/ ConsistencyCheck
    \/ GenerateCsv \/ PreDownloadCheck \/ ReadyGate \/ AuditLog
    \/ OnException \/ Finally \/ Rerun

Spec == Init /\ [][Next]_vars

\* C6: the run produces the success message and the download button only
\* when the error list of every validator it executed (checks 1, 2, 3, 4 and
\* 9) is empty; a sheet with a negative amount in a mapped column never gets
\* there.
C6_ErrorsBlockReady ==
    download =>
        /\ check1.errors = <<>> /\ check2.errors = <<>> /\ check3.errors = <<>>
        /\ check4.errors = <<>> /\ check9.errors = <<>>
        /\ NegativeCells(payroll_df, wage_mapping) = {}

\* the structural failures of a run
MappingMissing == mapping_file.state = "missing"
MappingUnparseable == mapping_file.state = "corrupt"
SheetUnparseable == uploaded_file.state = "corrupt"
NoHeaderMatches ==
    /\ mapping_file.state = "ok" /\ uploaded_file.state = "ok"
    /\ \A c \in 1..NCols(uploaded_file.rows) :
          Upper(Strip(PyStr(uploaded_file.rows[1][c])))
              \notin DOMAIN load_wage_mapping(mapping_file).map

\* C7: a run in which the mapping file is missing, the mapping cannot be
\* parsed, the sheet cannot be parsed or no header cell is a mapping key
\* surfaces exactly one failure message, and produces no CSV, no download
\* button and no audit entry.
C7_StructuralFailureOneMessage ==
    ( /\ pc = "done"
      /\ uploaded_file.state # "missing"
      /\ MappingMissing \/ MappingUnparseable \/ SheetUnparseable \/ NoHeaderMatches )
    => /\ Len(st_errors) = 1
       /\ csv_data = <<>> /\ ~download /\ audit_log = <<>>

(***************************************************************************)
(* SpecConsistency: check_8_component_consistency applied to a record list *)
(***************************************************************************)
MaxSpellingRecords == 4

Spellings ==
    { T_Housing, <<"H","O","U","S","I","N","G">>, <<"h","o","u","s","i","n","g">>, T_Transport, <<"T","R","A","N","S","P","O","R","T">> }
SpellingRecords ==
    { Deduction(e, T_Jane, T_A1, c, 20 * AmountScale) :
        e \in {T_E12345, T_E12346}, c \in Spellings }

InitConsistency ==
    /\ pc = "check8"
    /\ deductions \in SeqsUpTo(SpellingRecords, MaxSpellingRecords)
    /\ month = Unset /\ year = Unset
    /\ mapping_file = Unset /\ uploaded_file = Unset /\ generate = FALSE
    /\ wage_mapping = Unset /\ payroll_df = Unset
    /\ NoChecks /\ NoOutput
    /\ error = Unset
    /\ ret = Unset

Consistency ==
    /\ pc = "check8"
    /\ check8' = check_8_component_consistency(deductions)
    /\ pc' = "done"
    /\ UNCHANGED <<inputVars, generate, wage_mapping, payroll_df, check1, check2,
                   check3, check4, check7, check9, deductions, error, outVars, ret>>

SpecConsistency == InitConsistency /\ [][Consistency]_vars

\* the pairs of different spellings among the records' components whose
\* upper-case forms are the same
SpellingsOf(deds) == {deds[i].component : i \in 1..Len(deds)}
CollidingPairs(deds) ==
    { pair \in SUBSET SpellingsOf(deds) :
        /\ Cardinality(pair) = 2
        /\ \A a \in pair, b \in pair : Upper(a) = Upper(b) }

\* C11: check 8 returns as many warnings as there are pairs of different
\* spellings with the same upper-case form, however many records carry each
\* spelling.
C11_Check8OncePerPair ==
    pc = "done" => Len(check8) = Cardinality(CollidingPairs(deductions))

(***************************************************************************)
(* SpecAudit: check_10_audit_log (lines 297-321) in two runs that overlap. *)
(* pc[r] is run r's position, ret[r] its in-memory audit_log list, and     *)
(* audit_log the list last written to the file.  A file opened with 'w' is *)
(* empty until json.dump has written it: a json.load of it raises, and the *)
(* run's except clause passes.                                             *)
(***************************************************************************)
MaxLogEntries == 2

Runs == {1, 2}
RunSheet(r) == IF r = 1 THEN <<"1">> ELSE <<"2">>
RunEntry(r) == AuditEntry(RunSheet(r), r, r * 20 * AmountScale)
EarlierEntries ==
    { AuditEntry(<<"0">>, n, n * 500 * AmountScale) : n \in {1, 2} }

InitAudit ==
    /\ pc = [r \in Runs |-> "read"]
    /\ ret = [r \in Runs |-> <<>>]
    /\ audit_log \in SeqsUpTo(EarlierEntries, MaxLogEntries)
    /\ csv_data = <<>> /\ st_errors = <<>> /\ download = FALSE
    /\ month = Unset /\ year = Unset
    /\ mapping_file = Unset /\ uploaded_file = Unset /\ generate = FALSE
    /\ wage_mapping = Unset /\ payroll_df = Unset
    /\ NoChecks
    /\ deductions = <<>> /\ error = Unset

auditRest ==
    <<inputVars, generate, wage_mapping, payroll_df, checkVars, deductions, error,
      csv_data, st_errors, download>>

\* some run has opened the file for writing and not yet written it
FileTruncated == \E r \in Runs : pc[r] = "dump"

\* lines 308-314: the file's list (or [] without a file), and the append
AuditRead(r) ==
    /\ pc[r] = "read"
    /\ IF FileTruncated
       THEN pc' = [pc EXCEPT ![r] = "done"] /\ UNCHANGED ret     \* except: pass
       ELSE /\ ret' = [ret EXCEPT ![r] = check_10_audit_log(audit_log, RunSheet(r), r,
                                                            r * 20 * AmountScale)]
            /\ pc' = [pc EXCEPT ![r] = "open"]
    /\ UNCHANGED <<audit_log, auditRest>>

\* line 316: open(AUDIT_LOG_FILE, 'w')
AuditOpen(r) ==
    /\ pc[r] = "open"
    /\ pc' = [pc EXCEPT ![r] = "dump"]
    /\ UNCHANGED <<audit_log, ret, auditRest>>

\* line 317: json.dump(audit_log, f, indent=2)
AuditDump(r) ==
    /\ pc[r] = "dump"
    /\ audit_log' = ret[r]
    /\ pc' = [pc EXCEPT ![r] = "done"]
    /\ UNCHANGED <<ret, auditRest>>

NextAudit == \E r \in Runs : AuditRead(r) \/ AuditOpen(r) \/ AuditDump(r)
SpecAudit == InitAudit /\ [][NextAudit]_vars

IsPrefix(s, t) == Len(s) <= Len(t) /\ SubSeq(t, 1, Len(s)) = s
Entries(log) == {log[i] : i \in 1..Len(log)}

\* C12: in two overlapping runs of check_10_audit_log no write removes or
\* alters an entry written before it, and once both runs are over the file
\* holds the entries of both runs.
C12_AuditLogAppendOnly ==
    /\ [][IsPrefix(audit_log, audit_log')]_vars
    /\ []((\A r \in Runs : pc[r] = "done") => \A r \in Runs : RunEntry(r) \in Entries(audit_log))

\* C13: a run calls check_10_audit_log once when it reaches the success
\* message and the download button and never otherwise, every run ends with
\* the generate flag reset, and the script running again after it adds no
\* entry: one press of the button gives at most one audit entry.
C13_OneAuditEntryPerRun ==
    /\ Len(audit_log) <= 1
    /\ pc \in {"finally", "done"} => Len(audit_log) = (IF download THEN 1 ELSE 0)
    /\ pc \in {"done", "rerun"} => ~generate
    /\ pc \notin {"audit", "finally", "done", "rerun"} => audit_log = <<>>

\* the script has run again after a run that logged its entry
C13_Witness == pc = "rerun" /\ Len(audit_log) = 1 /\ ~generate /\ ~download

\* the columns whose header cell holds a text that, trimmed and upper-cased,
\* is a mapping key; the named ones are those whose text is not "NAN"
KeyCols(df, mapping) ==
    SelectSeq(Idx(NCols(df)), LAMBDA c :
        ~IsNa(df[1][c]) /\ Upper(Strip(PyStr(df[1][c]))) \in DOMAIN mapping.map)
NamedKeyCols(df, mapping) ==
    SelectSeq(KeyCols(df, mapping), LAMBDA c :
        Upper(Strip(PyStr(df[1][c]))) \notin {<<>>, <<"N","A","N">>})

\* the record of a cell, and whether the cell has one
HasNumberAboveZero(cell) == PyFloat(cell).k = "num" /\ PyFloat(cell).v > 0
IdIsBlank(cell) == Strip(PyStr(cell)) = <<>> \/ Lower(Strip(PyStr(cell))) = <<"n","a","n">>
RecordOf(df, r, c, mapping) ==
    [emp_id |-> Strip(PyStr(df[r][1])),
     emp_name |-> Strip(PyStr(df[r][2])),
     code |-> Upper(Strip(PyStr(df[1][c]))),
     component |-> mapping.map[Upper(Strip(PyStr(df[1][c])))],
     amount |-> PyFloat(df[r][c]).v,
     pay_date |-> Unset]
\* one record for each cell with a number above zero in the given columns of
\* the data rows with an identifier, by row and then by column
RecordsInOrder(df, cols, mapping) ==
    ConcatAll([i \in 1..(NRows(df) - 2) |->
        IF IdIsBlank(df[i + 2][1]) THEN <<>>
        ELSE LET kept == SelectSeq(cols, LAMBDA c : HasNumberAboveZero(df[i + 2][c]))
             IN  [k \in 1..Len(kept) |-> RecordOf(df, i + 2, kept[k], mapping)]])

\* C14 as stated: when a header cell of row 0 is a mapping key, the list
\* returned holds one record for each cell with a number above zero in a
\* mapped column of a data row with an identifier, in row and then column
\* order, and nothing else.
C14_ExtractCompleteOrdered ==
    (pc = "done" /\ KeyCols(payroll_df, wage_mapping) # <<>>)
    => /\ error = ""
       /\ deductions = RecordsInOrder(payroll_df, KeyCols(payroll_df, wage_mapping),
                                      wage_mapping)

\* C14 amended: the same over the mapped columns whose header does not read
\* "NAN"; a header that reads "NAN" is passed over like an empty one, and a
\* sheet whose only mapped headers read "NAN" is refused as having none.
C14_ExtractCompleteOrderedNamed ==
    pc = "done" =>
        IF NamedKeyCols(payroll_df, wage_mapping) # <<>>
        THEN /\ error = ""
             /\ deductions = RecordsInOrder(payroll_df,
                                            NamedKeyCols(payroll_df, wage_mapping),
                                            wage_mapping)
        ELSE error # "" /\ deductions = <<>>

\* C14 witness: records of two rows were returned from a sheet in which a
\* row has a non-numeric cell in one mapped column beside a number above zero
\* in the other
C14_Witness ==
    /\ pc = "done"
    /\ error = ""
    /\ Len(deductions) >= 3
    /\ Len(KeyCols(payroll_df, wage_mapping)) = 2
    /\ \E r \in DataRows(payroll_df) :
          /\ ~IdIsBlank(payroll_df[r][1])
          /\ PyFloat(payroll_df[r][3]).k = "ValueError"
          /\ HasNumberAboveZero(payroll_df[r][4])
          /\ \E i \in 1..Len(deductions) : deductions[i].amount = PyFloat(payroll_df[r][4]).v

=============================================================================
